---- MODULE Spec2Model ----
(***************************************************************************)
(* tokv2 (src/main.go): a producer (the main goroutine) reads lines,       *)
(* decomposes each as a URL or as plain text into alphanumeric tokens and  *)
(* sends them over an unbuffered channel to one worker goroutine, which    *)
(* deduplicates, filters and writes each token to one of three outputs.    *)
(*                                                                         *)
(* A Go string is modelled as a sequence of characters, a character as a   *)
(* one-character TLA+ string.  The input alphabet is the set Alphabet      *)
(* below; it leaves out '%', '@', '[', ']' and control characters, so the  *)
(* parts of net/url that deal with percent-escapes, userinfo and IPv6      *)
(* literals are not modelled.                                              *)
(***************************************************************************)
EXTENDS Integers, Sequences, FiniteSets, TLC

(***************************************************************************)
(* Characters                                                              *)
(***************************************************************************)
AsciiLower ==
  {"a", "b", "c", "d", "e", "f", "g", "h", "i", "j", "k", "l", "m",
   "n", "o", "p", "q", "r", "s", "t", "u", "v", "w", "x", "y", "z"}

AsciiUpper == {"A"}

AsciiDigits == {"0", "1", "2", "3", "4", "5", "6", "7", "8", "9"}

\* A letter outside ASCII: one code point, two bytes in UTF-8.
WideLetters == {"é"}

Punct == {".", "/", ":", "?", "#", "=", "&", ";", "+", "-", " "}

Alphabet == AsciiLower \cup AsciiUpper \cup AsciiDigits \cup WideLetters \cup Punct

\* unicode.IsLetter / unicode.IsNumber on the alphabet.
IsLetter(r) == r \in AsciiLower \cup AsciiUpper \cup WideLetters

IsNumber(r) == r \in AsciiDigits

\* Number of bytes of the UTF-8 encoding of one character.
RuneLen(r) == IF r \in WideLetters THEN 2 ELSE 1

RECURSIVE len(_)
\* Go's len(s) of a string: its length in bytes.
len(s) == IF s = <<>> THEN 0 ELSE RuneLen(Head(s)) + len(Tail(s))

(***************************************************************************)
(* package strings                                                         *)
(***************************************************************************)
\* Index of the first c in s, 0 when there is none (Go: -1).
Index(s, c) ==
  IF \E i \in 1..Len(s) : s[i] = c
  THEN CHOOSE i \in 1..Len(s) : s[i] = c /\ \A j \in 1..(i - 1) : s[j] # c
  ELSE 0

LastIndex(s, c) ==
  IF \E i \in 1..Len(s) : s[i] = c
  THEN CHOOSE i \in 1..Len(s) : s[i] = c /\ \A j \in (i + 1)..Len(s) : s[j] # c
  ELSE 0

\* before, after of strings.Cut(s, c), given the index i of the first c.
CutAt(s, i) ==
  IF i = 0
  THEN [before |-> s, after |-> <<>>]
  ELSE [before |-> SubSeq(s, 1, i - 1), after |-> SubSeq(s, i + 1, Len(s))]

Cut(s, c) == CutAt(s, Index(s, c))

HasPrefix(s, p) == Len(s) >= Len(p) /\ SubSeq(s, 1, Len(p)) = p

HasSuffix(s, p) == Len(s) >= Len(p) /\ SubSeq(s, Len(s) - Len(p) + 1, Len(s)) = p

Count(s, c) == Cardinality({i \in 1..Len(s) : s[i] = c})

Contains(s, sub) ==
  \E i \in 1..(Len(s) + 1) :
    i + Len(sub) - 1 <= Len(s) /\ SubSeq(s, i, i + Len(sub) - 1) = sub

RECURSIVE Split(_, _)
RECURSIVE SplitAt(_, _, _)
\* strings.Split(s, c) for a one-character separator: always at least one part.
Split(s, c) == SplitAt(s, c, Index(s, c))

\* ... given the index i of the first separator.
SplitAt(s, c, i) ==
  IF i = 0
  THEN <<s>>
  ELSE <<SubSeq(s, 1, i - 1)>> \o Split(SubSeq(s, i + 1, Len(s)), c)

(***************************************************************************)
(* Tokens                                                                  *)
(***************************************************************************)
Subdomain == "Subdomain"
Path == "Path"
ParamName == "ParamName"
ParamValue == "ParamValue"
Fragment == "Fragment"
Generic == "Generic"

TokenType == {Subdomain, Path, ParamName, ParamValue, Fragment, Generic}

Token(value, type) == [Value |-> value, Type |-> type]

RECURSIVE subTokenizeFromNoFinalFlush(_, _, _, _)
\* subTokenizeFrom without the send after the loop: a run that reaches the end
\* of the input is dropped.
subTokenizeFromNoFinalFlush(input, i, out, tokenType) ==
  IF i > Len(input)
  THEN <<>>
  ELSE IF IsLetter(input[i]) \/ IsNumber(input[i])
       THEN subTokenizeFromNoFinalFlush(input, i + 1, Append(out, input[i]), tokenType)
       ELSE (IF len(out) > 0 THEN <<Token(out, tokenType)>> ELSE <<>>)
            \o subTokenizeFromNoFinalFlush(input, i + 1, <<>>, tokenType)

RECURSIVE subTokenizeFrom(_, _, _, _)
\* The loop of subTokenize from position i on, with the builder holding out.
subTokenizeFrom(input, i, out, tokenType) ==
  IF i > Len(input)
  THEN IF len(out) > 0 THEN <<Token(out, tokenType)>> ELSE <<>>
  ELSE IF IsLetter(input[i]) \/ IsNumber(input[i])
       THEN subTokenizeFrom(input, i + 1, Append(out, input[i]), tokenType)
       ELSE (IF len(out) > 0 THEN <<Token(out, tokenType)>> ELSE <<>>)
            \o subTokenizeFrom(input, i + 1, <<>>, tokenType)

\* The tokens one call of subTokenize sends, in the order it sends them.
subTokenize(input, tokenType) == subTokenizeFrom(input, 1, <<>>, tokenType)

RECURSIVE subTokenizeEach(_, _)
\* for _, part := range parts { subTokenize(part, tokenType, tokens) }
subTokenizeEach(parts, tokenType) ==
  IF parts = <<>>
  THEN <<>>
  ELSE subTokenize(Head(parts), tokenType) \o subTokenizeEach(Tail(parts), tokenType)

(***************************************************************************)
(* package net/url (Go standard library), restricted to Alphabet           *)
(***************************************************************************)
\* strings.ToLower on one character.
ToLowerRune(r) == IF r = "A" THEN "a" ELSE r

ToLower(s) == [i \in 1..Len(s) |-> ToLowerRune(s[i])]

NoURL == [err |-> TRUE, Scheme |-> <<>>, Opaque |-> <<>>, Host |-> <<>>,
          Path |-> <<>>, RawQuery |-> <<>>, Fragment |-> <<>>]

RECURSIVE getSchemeFrom(_, _)
\* url.getScheme: scheme = ALPHA *( ALPHA / DIGIT / "+" / "-" / "." ) before ':'.
getSchemeFrom(rawURL, i) ==
  IF i > Len(rawURL)
  THEN [scheme |-> <<>>, rest |-> rawURL, err |-> FALSE]
  ELSE LET c == rawURL[i]
       IN  CASE c \in AsciiLower \cup AsciiUpper -> getSchemeFrom(rawURL, i + 1)
             [] c \in AsciiDigits \cup {"+", "-", "."} ->
                  IF i = 1
                  THEN [scheme |-> <<>>, rest |-> rawURL, err |-> FALSE]
                  ELSE getSchemeFrom(rawURL, i + 1)
             [] c = ":" ->
                  IF i = 1
                  THEN [scheme |-> <<>>, rest |-> <<>>, err |-> TRUE]
                  ELSE [scheme |-> SubSeq(rawURL, 1, i - 1),
                        rest |-> SubSeq(rawURL, i + 1, Len(rawURL)),
                        err |-> FALSE]
             [] OTHER -> [scheme |-> <<>>, rest |-> rawURL, err |-> FALSE]

getScheme(rawURL) == getSchemeFrom(rawURL, 1)

\* url.validOptionalPort: "" or ":" followed by ASCII digits only.
validOptionalPort(port) ==
  \/ port = <<>>
  \/ /\ port[1] = ":"
     /\ \A i \in 2..Len(port) : port[i] \in AsciiDigits

\* url.shouldEscape(c, encodeHost) for the ASCII characters of Alphabet.
shouldEscapeHost(c) ==
  ~(c \in AsciiLower \cup AsciiUpper \cup AsciiDigits
        \cup {"&", "+", ";", "=", ":", "-", "."})

\* The port check of url.parseHost fails, given the index i of the last ':'.
invalidPort(host, i) == i # 0 /\ ~validOptionalPort(SubSeq(host, i, Len(host)))

\* url.parseHost without the "[" branch returns an error: the port check, then
\* unescape in host mode, which rejects every ASCII character that needs escaping.
parseHostErr(host) ==
  \/ invalidPort(host, LastIndex(host, ":"))
  \/ \E i \in 1..Len(host) : RuneLen(host[i]) = 1 /\ shouldEscapeHost(host[i])

\* url.parse from "//" on: rest = "//" authority [ "/" path ], slash the index
\* of the first '/' after the two slashes (0 when there is none).
parseAuthority(url, afterSlashes, slash) ==
  IF parseHostErr(IF slash = 0 THEN afterSlashes ELSE SubSeq(afterSlashes, 1, slash - 1))
  THEN NoURL
  ELSE [url EXCEPT
          !.Host = IF slash = 0 THEN afterSlashes ELSE SubSeq(afterSlashes, 1, slash - 1),
          !.Path = IF slash = 0 THEN <<>> ELSE SubSeq(afterSlashes, slash, Len(afterSlashes))]

\* url.parse after the scheme and the query have been cut off rest.
parseRest(url, rest) ==
  IF ~HasPrefix(rest, <<"/">>) /\ url.Scheme # <<>>
  THEN [url EXCEPT !.Opaque = rest]
  ELSE IF ~HasPrefix(rest, <<"/">>) /\ Contains(Cut(rest, "/").before, <<":">>)
  THEN NoURL
  ELSE IF (url.Scheme # <<>> \/ ~HasPrefix(rest, <<"/", "/", "/">>))
          /\ HasPrefix(rest, <<"/", "/">>)
  THEN parseAuthority(url, SubSeq(rest, 3, Len(rest)), Index(SubSeq(rest, 3, Len(rest)), "/"))
  ELSE [url EXCEPT !.Path = rest]

\* url.parse after getScheme: cut the query off rest (a lone trailing '?' only
\* sets ForceQuery), then parse what is left.
parseQueryCut(scheme, rest) ==
  IF HasSuffix(rest, <<"?">>) /\ Count(rest, "?") = 1
  THEN parseRest([err |-> FALSE, Scheme |-> scheme, Opaque |-> <<>>, Host |-> <<>>,
                  Path |-> <<>>, RawQuery |-> <<>>, Fragment |-> <<>>],
                 SubSeq(rest, 1, Len(rest) - 1))
  ELSE parseRest([err |-> FALSE, Scheme |-> scheme, Opaque |-> <<>>, Host |-> <<>>,
                  Path |-> <<>>, RawQuery |-> Cut(rest, "?").after, Fragment |-> <<>>],
                 Cut(rest, "?").before)

parseScheme(sch) == IF sch.err THEN NoURL ELSE parseQueryCut(ToLower(sch.scheme), sch.rest)

\* url.parse(rawURL, viaRequest = false) on the URL without its fragment.
parse(rawURL) == parseScheme(getScheme(rawURL))

setFragment(url, frag) == IF url.err THEN NoURL ELSE [url EXCEPT !.Fragment = frag]

\* url.Parse: cut the fragment at the first '#', parse the rest.
Parse(rawURL) == setFragment(parse(Cut(rawURL, "#").before), Cut(rawURL, "#").after)

\* url.splitHostPort, given the index of the last ':': the host without a valid port.
splitHostPort(host, colon) ==
  IF colon # 0 /\ validOptionalPort(SubSeq(host, colon, Len(host)))
  THEN SubSeq(host, 1, colon - 1)
  ELSE host

\* (*URL).Hostname
Hostname(u) == splitHostPort(u.Host, LastIndex(u.Host, ":"))

\* url.QueryUnescape without percent-escapes: '+' becomes a space.
QueryUnescape(s) == [i \in 1..Len(s) |-> IF s[i] = "+" THEN " " ELSE s[i]]

\* The (key, value) pair url.parseQuery adds for one piece "key=value".
queryPair(kv) == [key |-> QueryUnescape(kv.before), value |-> QueryUnescape(kv.after)]

RECURSIVE parseQueryPairs(_)
\* The (key, value) pairs url.parseQuery adds to the map, in order: a piece
\* with ';' is an error and an empty piece is skipped.
parseQueryPairs(pieces) ==
  IF pieces = <<>>
  THEN <<>>
  ELSE (IF Contains(Head(pieces), <<";">>) \/ Head(pieces) = <<>>
        THEN <<>>
        ELSE <<queryPair(Cut(Head(pieces), "="))>>)
       \o parseQueryPairs(Tail(pieces))

\* url.parseQuery on the '&'-separated pieces.
parseQuery(pieces) ==
  [pairs |-> parseQueryPairs(pieces),
   err |-> \E i \in 1..Len(pieces) : Contains(pieces[i], <<";">>)]

\* url.ParseQuery: the pairs, and whether it returns an error.
ParseQuery(query) == parseQuery(IF query = <<>> THEN <<>> ELSE Split(query, "&"))

\* The keys of the url.Values map.
QueryKeys(q) == {q.pairs[i].key : i \in 1..Len(q.pairs)}

RECURSIVE QueryValues(_, _)
\* query[key]: the values of the key, in the order they were appended.
QueryValues(pairs, key) ==
  IF pairs = <<>>
  THEN <<>>
  ELSE (IF Head(pairs).key = key THEN <<Head(pairs).value>> ELSE <<>>)
       \o QueryValues(Tail(pairs), key)

(***************************************************************************)
(* Decomposition of one input line (the body of the scanner loop)          *)
(***************************************************************************)
\* IsFallback without the test of u.Host.
IsFallbackNoHostTest(u) == u.err \/ u.Scheme = <<>>

\* IsFallback testing the error alone.
IsFallbackErrOnly(u) == u.err

\* The condition of the fallback branch: url.Parse failed, or no scheme, or no host.
IsFallback(u) == u.err \/ u.Scheme = <<>> \/ u.Host = <<>>

\* All orders in which a range over a map with key set S may visit its keys.
KeyOrders(S) ==
  {o \in [1..Cardinality(S) -> S] : \A i, j \in 1..Cardinality(S) : o[i] = o[j] => i = j}

RECURSIVE subTokenizeValues(_)
\* for _, value := range values { subTokenize(value, ParamValue, tokens) }
subTokenizeValues(values) ==
  IF values = <<>>
  THEN <<>>
  ELSE subTokenize(Head(values), ParamValue) \o subTokenizeValues(Tail(values))

RECURSIVE queryTokensValuesFirst(_, _)
\* queryTokens with the two statements of the loop body exchanged: the values
\* of a key are tokenized before the key.
queryTokensValuesFirst(q, order) ==
  IF order = <<>>
  THEN <<>>
  ELSE subTokenizeValues(QueryValues(q.pairs, Head(order)))
       \o subTokenize(Head(order), ParamName)
       \o queryTokensValuesFirst(q, Tail(order))

RECURSIVE queryTokens(_, _)
\* for key, values := range query { ... } visiting the keys in the given order.
queryTokens(q, order) ==
  IF order = <<>>
  THEN <<>>
  ELSE subTokenize(Head(order), ParamName)
       \o subTokenizeValues(QueryValues(q.pairs, Head(order)))
       \o queryTokens(q, Tail(order))

\* The orders in which the loop body can range over the query map of u.
urlKeyOrders(u, q) == IF IsFallback(u) \/ q.err THEN {<<>>} ELSE KeyOrders(QueryKeys(q))

parsedKeyOrders(u) == urlKeyOrders(u, ParseQuery(u.RawQuery))

\* The orders the query map of a line can be ranged over (one empty order when
\* the line is not a URL or its query does not parse).
LineKeyOrders(line) == parsedKeyOrders(Parse(line))

\* The "Query Parameters" block: nothing when url.ParseQuery returned an error.
queryBlock(q, order) == IF ~q.err THEN queryTokens(q, order) ELSE <<>>

\* urlTokens with a failed url.ParseQuery ending the loop body (continue), so
\* that the fragment of such a line is not tokenized.
urlTokensQueryErrorSkipsRest(line, u, order) ==
  IF IsFallback(u)
  THEN subTokenize(line, Generic)
  ELSE subTokenizeEach(Split(Hostname(u), "."), Subdomain)
       \o subTokenizeEach(Split(u.Path, "/"), Path)
       \o queryBlock(ParseQuery(u.RawQuery), order)
       \o (IF ParseQuery(u.RawQuery).err THEN <<>> ELSE subTokenize(u.Fragment, Fragment))

\* The loop body after u, err := url.Parse(line).
urlTokens(line, u, order) ==
  IF IsFallback(u)
  THEN subTokenize(line, Generic)
  ELSE subTokenizeEach(Split(Hostname(u), "."), Subdomain)
       \o subTokenizeEach(Split(u.Path, "/"), Path)
       \o queryBlock(ParseQuery(u.RawQuery), order)
       \o subTokenize(u.Fragment, Fragment)

\* Every token the loop body sends for one line, in the order it sends them.
lineTokens(line, order) == urlTokens(line, Parse(line), order)

(***************************************************************************)
(* Inputs of a run: the lines on stdin and the command-line flags          *)
(***************************************************************************)
\* At most this many lines on stdin.
MaxLines == 2

CorpusLines ==
  { (* h://api.io/api?api=7 *)
    <<"h", ":", "/", "/", "a", "p", "i", ".", "i", "o", "/", "a", "p", "i", "?", "a", "p", "i", "=", "7">>,
    (* h://a/b?x=1&y=2#f *)
    <<"h", ":", "/", "/", "a", "/", "b", "?", "x", "=", "1", "&", "y", "=", "2", "#", "f">>,
    (* h://s/p?a=b&b=a *)
    <<"h", ":", "/", "/", "s", "/", "p", "?", "a", "=", "b", "&", "b", "=", "a">>,
    (* not a url *)
    <<"n", "o", "t", " ", "a", " ", "u", "r", "l">>,
    (* h://a.b:80/p1/q2?11=p12 *)
    <<"h", ":", "/", "/", "a", ".", "b", ":", "8", "0", "/", "p", "1", "/", "q", "2", "?", "1", "1", "=", "p", "1", "2">>,
    (* /v1/x?k=1 *)
    <<"/", "v", "1", "/", "x", "?", "k", "=", "1">>,
    (* h://a/p?x;y=1&k=2#f *)
    <<"h", ":", "/", "/", "a", "/", "p", "?", "x", ";", "y", "=", "1", "&", "k", "=", "2", "#", "f">>,
    (* h://é1/aé *)
    <<"h", ":", "/", "/", "é", "1", "/", "a", "é">>,
    (* example.com/a?x=1&x=2 *)
    <<"e", "x", "a", "m", "p", "l", "e", ".", "c", "o", "m", "/", "a", "?", "x", "=", "1", "&", "x", "=", "2">>,
    (* http://example.com/a?x=1&x=2 *)
    <<"h", "t", "t", "p", ":", "/", "/", "e", "x", "a", "m", "p", "l", "e", ".", "c", "o", "m", "/", "a", "?", "x", "=", "1", "&", "x", "=", "2">> }

\* The inputs of the runs of Spec: up to MaxLines lines of the corpus.
Inputs == UNION {[1..n -> CorpusLines] : n \in 1..MaxLines}

\* The inputs of the runs of SpecLines: one line, put together from a scheme
\* part, an authority part, a path, a query and a fragment, well-formed or not.
SchemeParts ==
  { (* empty *) <<>>,
    (* h: *) <<"h", ":">>,
    (* A1: *) <<"A", "1", ":">>,
    (* 1: *) <<"1", ":">>,
    (* : *) <<":">> }

AuthorityParts ==
  { (* empty *) <<>>,
    (* / *) <<"/">>,
    (* // *) <<"/", "/">>,
    (* //a *) <<"/", "/", "a">>,
    (* //a.b:80 *) <<"/", "/", "a", ".", "b", ":", "8", "0">>,
    (* //a:b *) <<"/", "/", "a", ":", "b">>,
    (* //a b *) <<"/", "/", "a", " ", "b">>,
    (* /// *) <<"/", "/", "/">>,
    (* //é *) <<"/", "/", "é">> }

PathParts ==
  { (* empty *) <<>>,
    (* /p *) <<"/", "p">>,
    (* /p1/q-é *) <<"/", "p", "1", "/", "q", "-", "é">> }

QueryParts ==
  { (* empty *) <<>>,
    (* ? *) <<"?">>,
    (* ?x=1&y=2 *) <<"?", "x", "=", "1", "&", "y", "=", "2">>,
    (* ?x=1&x=2 *) <<"?", "x", "=", "1", "&", "x", "=", "2">>,
    (* ?x;y=1 *) <<"?", "x", ";", "y", "=", "1">>,
    (* ?=1&&k=a+b *) <<"?", "=", "1", "&", "&", "k", "=", "a", "+", "b">> }

FragmentParts ==
  { (* empty *) <<>>,
    (* #f *) <<"#", "f">>,
    (* #f#g?h *) <<"#", "f", "#", "g", "?", "h">> }

GrammarLines ==
  {s \o a \o p \o q \o f :
     s \in SchemeParts, a \in AuthorityParts, p \in PathParts,
     q \in QueryParts, f \in FragmentParts}

LineInputs == {<<l>> : l \in GrammarLines}

\* The -r pattern of the README's example 3, "^[0-9]+$".
DigitsRegex == <<"^", "[", "0", "-", "9", "]", "+", "$">>

\* flag defaults (-min 1, -max 25, no filter, no output file).
DefaultFlags ==
  [minlength |-> 1, maxlength |-> 25, alphaNumOnly |-> FALSE, filterString |-> <<>>,
   filterRegex |-> <<>>, pathFile |-> FALSE, paramFile |-> FALSE]

\* The flag settings of the runs; pathFile / paramFile say whether -o / -op
\* was given, that is whether the file handle is non-nil.
FlagSets ==
  { DefaultFlags,
    [DefaultFlags EXCEPT !.pathFile = TRUE, !.paramFile = TRUE],
    [DefaultFlags EXCEPT !.minlength = 2, !.maxlength = 3, !.pathFile = TRUE],
    [DefaultFlags EXCEPT !.filterString = <<"a">>, !.paramFile = TRUE],
    [DefaultFlags EXCEPT !.filterRegex = DigitsRegex, !.pathFile = TRUE, !.paramFile = TRUE],
    [DefaultFlags EXCEPT !.alphaNumOnly = TRUE, !.pathFile = TRUE, !.paramFile = TRUE],
    [DefaultFlags EXCEPT !.minlength = 2, !.maxlength = 2, !.filterString = <<"1">>,
                         !.alphaNumOnly = TRUE, !.pathFile = TRUE, !.paramFile = TRUE],
    [DefaultFlags EXCEPT !.minlength = 3, !.maxlength = 2] }

(***************************************************************************)
(* State                                                                   *)
(***************************************************************************)
VARIABLES
  lines,      \* the lines of stdin
  flags,      \* the flag variables after flag.Parse
  pcMain,     \* main goroutine: "scan", "send", "wait" (in wg.Wait), "done"
  lineNo,     \* number of lines scanner.Scan has returned
  pending,    \* tokens of the current line that are still to be sent
  produced,   \* per line read, the tokens its loop body sends (history)
  sent,       \* tokens whose send on the channel has completed (history)
  closed,     \* close(tokens) has been called
  pcWorker,   \* worker goroutine: "recv" (in range tokens), "proc", "done"
  token,      \* the worker's loop variable while pcWorker = "proc"
  recvd,      \* tokens the worker has received (history)
  processed,  \* number of processToken calls that have returned (history)
  lastToken,  \* the keys stored in the sync.Map
  stdout,     \* lines written to standard output
  pathOut,    \* lines written to pathFile
  paramOut,   \* lines written to paramFile
  wg          \* the WaitGroup counter

vars == <<lines, flags, pcMain, lineNo, pending, produced, sent, closed, pcWorker,
          token, recvd, processed, lastToken, stdout, pathOut, paramOut, wg>>

mainVars == <<pcMain, lineNo, pending, produced>>

workerVars == <<lastToken, stdout, pathOut, paramOut, processed>>

NoToken == Token(<<>>, Generic)

\* The state main is in when it reaches the scanner loop: flags parsed, files
\* created, channel made, wg.Add(1) done, worker started.
InitRun ==
  /\ pcMain = "scan"
  /\ lineNo = 0
  /\ pending = <<>>
  /\ produced = <<>>
  /\ sent = <<>>
  /\ closed = FALSE
  /\ pcWorker = "recv"
  /\ token = NoToken
  /\ recvd = <<>>
  /\ processed = 0
  /\ lastToken = {}
  /\ stdout = <<>>
  /\ pathOut = <<>>
  /\ paramOut = <<>>
  /\ wg = 1

Init ==
  /\ lines \in Inputs
  /\ flags \in FlagSets
  /\ InitRun

\* One line of GrammarLines with both output files given.
InitLines ==
  /\ lines \in LineInputs
  /\ flags = [DefaultFlags EXCEPT !.pathFile = TRUE, !.paramFile = TRUE]
  /\ InitRun

(***************************************************************************)
(* processToken                                                            *)
(***************************************************************************)
\* regex.MatchString(str) for the one pattern of the runs, ^[0-9]+$.
MatchString(re, str) ==
  re = DigitsRegex /\ str # <<>> /\ \A i \in 1..Len(str) : str[i] \in AsciiDigits

\* Loaded with the dedup gate left out: no value ever counts as seen.
LoadedNever(str) == FALSE

\* lastToken.LoadOrStore(str, true) reports loaded.
Loaded(str) == str \in lastToken

\* The length filter lets str through.
LengthOK(str) == ~(len(str) < flags.minlength \/ len(str) > flags.maxlength)

\* The substring filter lets str through.
SubstringOK(str) == ~(flags.filterString # <<>> /\ ~Contains(str, flags.filterString))

\* The regex filter lets str through (regex is nil when -r was not given).
RegexOK(str) == ~(flags.filterRegex # <<>> /\ ~MatchString(flags.filterRegex, str))

\* AlphaNumOK with the final test written !hasLetter && !hasNumber.
AlphaNumEither(str) ==
  ~flags.alphaNumOnly
  \/ ~(~(\E i \in 1..Len(str) : IsLetter(str[i]))
       /\ ~(\E i \in 1..Len(str) : IsNumber(str[i])))

\* The alpha-num-only filter lets str through.
AlphaNumOK(str) ==
  ~flags.alphaNumOnly
  \/ ~(~(\E i \in 1..Len(str) : IsLetter(str[i]))
       \/ ~(\E i \in 1..Len(str) : IsNumber(str[i])))

\* processToken reaches the output dispatch: no filter returned early.
PassesFilters(str) == LengthOK(str) /\ SubstringOK(str) /\ RegexOK(str) /\ AlphaNumOK(str)

\* Dispatch with the two cases of the switch writing to each other's file.
DispatchSwapped(tokenType) ==
  CASE tokenType = Path /\ flags.paramFile -> "paramFile"
    [] tokenType = ParamName /\ flags.pathFile -> "pathFile"
    [] OTHER -> "stdout"

\* The output the dispatch switch writes a token of this type to.
Dispatch(tokenType) ==
  CASE tokenType = Path /\ flags.pathFile -> "pathFile"
    [] tokenType = ParamName /\ flags.paramFile -> "paramFile"
    [] OTHER -> "stdout"

\* ProcessToken without the return after the write to pathFile or paramFile:
\* the value written to a file is printed to stdout as well.
ProcessTokenNoReturnAfterFile ==
  /\ pcWorker = "proc"
  /\ LET str == token.Value
         write == ~Loaded(str) /\ PassesFilters(str)
         out == Dispatch(token.Type)
     IN  /\ lastToken' = lastToken \cup {str}
         /\ stdout' = IF write THEN Append(stdout, str) ELSE stdout
         /\ pathOut' = IF write /\ out = "pathFile" THEN Append(pathOut, str) ELSE pathOut
         /\ paramOut' = IF write /\ out = "paramFile" THEN Append(paramOut, str) ELSE paramOut
  /\ processed' = processed + 1
  /\ pcWorker' = "recv"
  /\ token' = NoToken
  /\ UNCHANGED <<lines, flags, mainVars, sent, closed, recvd, wg>>

\* ProcessToken storing the value only when it has passed the filters.
ProcessTokenStoresAfterFilters ==
  /\ pcWorker = "proc"
  /\ LET str == token.Value
         write == ~Loaded(str) /\ PassesFilters(str)
         out == Dispatch(token.Type)
     IN  /\ lastToken' = IF PassesFilters(str) THEN lastToken \cup {str} ELSE lastToken
         /\ stdout' = IF write /\ out = "stdout" THEN Append(stdout, str) ELSE stdout
         /\ pathOut' = IF write /\ out = "pathFile" THEN Append(pathOut, str) ELSE pathOut
         /\ paramOut' = IF write /\ out = "paramFile" THEN Append(paramOut, str) ELSE paramOut
  /\ processed' = processed + 1
  /\ pcWorker' = "recv"
  /\ token' = NoToken
  /\ UNCHANGED <<lines, flags, mainVars, sent, closed, recvd, wg>>

\* ProcessToken writing the new line in front of the lines already written.
ProcessTokenWritesInFront ==
  /\ pcWorker = "proc"
  /\ LET str == token.Value
         write == ~Loaded(str) /\ PassesFilters(str)
         out == Dispatch(token.Type)
     IN  /\ lastToken' = lastToken \cup {str}
         /\ stdout' = IF write /\ out = "stdout" THEN <<str>> \o stdout ELSE stdout
         /\ pathOut' = IF write /\ out = "pathFile" THEN <<str>> \o pathOut ELSE pathOut
         /\ paramOut' = IF write /\ out = "paramFile" THEN <<str>> \o paramOut ELSE paramOut
  /\ processed' = processed + 1
  /\ pcWorker' = "recv"
  /\ token' = NoToken
  /\ UNCHANGED <<lines, flags, mainVars, sent, closed, recvd, wg>>

\* One call processToken(token), from LoadOrStore to the write.
ProcessToken ==
  /\ pcWorker = "proc"
  /\ LET str == token.Value
         write == ~Loaded(str) /\ PassesFilters(str)
         out == Dispatch(token.Type)
     IN  /\ lastToken' = lastToken \cup {str}
         /\ stdout' = IF write /\ out = "stdout" THEN Append(stdout, str) ELSE stdout
         /\ pathOut' = IF write /\ out = "pathFile" THEN Append(pathOut, str) ELSE pathOut
         /\ paramOut' = IF write /\ out = "paramFile" THEN Append(paramOut, str) ELSE paramOut
  /\ processed' = processed + 1
  /\ pcWorker' = "recv"
  /\ token' = NoToken
  /\ UNCHANGED <<lines, flags, mainVars, sent, closed, recvd, wg>>

(***************************************************************************)
(* main and the worker goroutine                                           *)
(***************************************************************************)
\* The token sequences the loop body can send for each line of the inputs, one
\* for every order the range over its query map can take (a table of
\* lineTokens, computed once).
Decomposed ==
  [line \in CorpusLines \cup GrammarLines |->
     {lineTokens(line, order) : order \in LineKeyOrders(line)}]

\* u of url.Parse(line) and query of url.ParseQuery(u.RawQuery) for each line
\* of the inputs (tables, computed once).
ParsedLine == [line \in CorpusLines \cup GrammarLines |-> Parse(line)]

ParsedQuery ==
  [line \in CorpusLines \cup GrammarLines |-> ParseQuery(ParsedLine[line].RawQuery)]

\* scanner.Scan returns true: one line is read and decomposed.  The loop body
\* computes the line's tokens; they are sent one by one by SendRecv.
ReadLine ==
  /\ pcMain = "scan"
  /\ lineNo < Len(lines)
  /\ \E toks \in Decomposed[lines[lineNo + 1]] :
       /\ produced' = Append(produced, toks)
       /\ pending' = toks
       /\ pcMain' = IF toks = <<>> THEN "scan" ELSE "send"
  /\ lineNo' = lineNo + 1
  /\ UNCHANGED <<lines, flags, sent, closed, pcWorker, token, recvd, workerVars, wg>>

\* CanSend for a channel with a buffer: a send completes at once.
CanSendAlways == TRUE

\* A send on the unbuffered channel can complete: a receiver is waiting.
CanSend == pcWorker = "recv"

\* SendRecv handing over the last token of the line instead of the next one.
SendRecvOutOfOrder ==
  /\ pcMain = "send"
  /\ pcWorker = "recv"
  /\ sent' = Append(sent, Head(pending))
  /\ pending' = Tail(pending)
  /\ pcMain' = IF Tail(pending) = <<>> THEN "scan" ELSE "send"
  /\ token' = pending[Len(pending)]
  /\ recvd' = Append(recvd, pending[Len(pending)])
  /\ pcWorker' = "proc"
  /\ UNCHANGED <<lines, flags, lineNo, produced, closed, workerVars, wg>>

\* tokens <- Token{...} in subTokenize meets the receive of range tokens.
SendRecv ==
  /\ pcMain = "send"
  /\ CanSend
  /\ sent' = Append(sent, Head(pending))
  /\ pending' = Tail(pending)
  /\ pcMain' = IF Tail(pending) = <<>> THEN "scan" ELSE "send"
  /\ token' = Head(pending)
  /\ recvd' = Append(recvd, Head(pending))
  /\ pcWorker' = "proc"
  /\ UNCHANGED <<lines, flags, lineNo, produced, closed, workerVars, wg>>

\* Close taken whenever main is at the head of the scanner loop, also when
\* lines are still to be read.
CloseBeforeEndOfInput ==
  /\ pcMain = "scan"
  /\ closed' = TRUE
  /\ pcMain' = "wait"
  /\ UNCHANGED <<lines, flags, lineNo, pending, produced, sent, pcWorker, token, recvd,
                 workerVars, wg>>

\* Close with close(tokens) left out: main goes on to wg.Wait() with the
\* channel still open.
CloseLeftOut ==
  /\ pcMain = "scan"
  /\ lineNo = Len(lines)
  /\ closed' = closed
  /\ pcMain' = "wait"
  /\ UNCHANGED <<lines, flags, lineNo, pending, produced, sent, pcWorker, token, recvd,
                 workerVars, wg>>

\* scanner.Scan returns false: close(tokens), then wg.Wait().
Close ==
  /\ pcMain = "scan"
  /\ lineNo = Len(lines)
  /\ closed' = TRUE
  /\ pcMain' = "wait"
  /\ UNCHANGED <<lines, flags, lineNo, pending, produced, sent, pcWorker, token, recvd,
                 workerVars, wg>>

\* range tokens ends on the closed channel; the deferred wg.Done() runs.
WorkerExit ==
  /\ pcWorker = "recv"
  /\ closed
  /\ pcWorker' = "done"
  /\ wg' = wg - 1
  /\ UNCHANGED <<lines, flags, mainVars, sent, closed, token, recvd, workerVars>>

\* WaitReturns with wg.Wait() left out: main returns right after close(tokens).
WaitReturnsAtOnce == TRUE

\* wg.Wait() may return.
WaitReturns == wg = 0

\* wg.Wait() returns and main returns.
Wait ==
  /\ pcMain = "wait"
  /\ WaitReturns
  /\ pcMain' = "done"
  /\ UNCHANGED <<lines, flags, lineNo, pending, produced, sent, closed, pcWorker, token,
                 recvd, workerVars, wg>>

Next == ReadLine \/ SendRecv \/ Close \/ ProcessToken \/ WorkerExit \/ Wait

Spec == Init /\ [][Next]_vars

SpecLines == InitLines /\ [][Next]_vars

\* The steps of the main goroutine and of the worker goroutine; a send that
\* meets a receive is a step of both.
MainStep == ReadLine \/ SendRecv \/ Close \/ Wait

WorkerStep == SendRecv \/ ProcessToken \/ WorkerExit

\* The Go scheduler runs every goroutine that stays runnable: neither main nor
\* the worker is left waiting forever while it has a step it can take.
Fairness == WF_vars(MainStep) /\ WF_vars(WorkerStep)

FairSpec == Init /\ [][Next]_vars /\ Fairness

(***************************************************************************)
(* Properties                                                              *)
(***************************************************************************)
Range(seq) == {seq[i] : i \in 1..Len(seq)}

Occurrences(seq, v) == Cardinality({i \in 1..Len(seq) : seq[i] = v})

\* Number of lines equal to v in the three outputs together.
TimesWritten(v) == Occurrences(stdout, v) + Occurrences(pathOut, v) + Occurrences(paramOut, v)

Written == Range(stdout) \cup Range(pathOut) \cup Range(paramOut)

RECURSIVE Flatten(_)
Flatten(seqs) == IF seqs = <<>> THEN <<>> ELSE Head(seqs) \o Flatten(Tail(seqs))

\* C1: in every reachable state every value occurs at most once in the three
\* outputs together, however often and under whatever types it was received.
C1_WrittenAtMostOnce ==
  \A v \in Written \cup {recvd[i].Value : i \in 1..Len(recvd)} : TimesWritten(v) <= 1

\* A value received twice under different types has been processed both times
\* and stands in the outputs once.
C1_Witness ==
  \E i, j \in 1..processed :
    /\ i < j
    /\ recvd[i].Value = recvd[j].Value
    /\ recvd[i].Type # recvd[j].Type
    /\ TimesWritten(recvd[i].Value) = 1

\* The four criteria of the claim, stated on the value alone.
C2_Criteria(v) ==
  /\ flags.minlength <= len(v)
  /\ len(v) <= flags.maxlength
  /\ (flags.filterString # <<>> => Contains(v, flags.filterString))
  /\ (flags.filterRegex # <<>> => MatchString(flags.filterRegex, v))
  /\ (flags.alphaNumOnly =>
        /\ \E i \in 1..Len(v) : IsLetter(v[i])
        /\ \E i \in 1..Len(v) : IsNumber(v[i]))

\* C2: when main has returned, a value produced from the input stands in some
\* output if and only if it meets every configured criterion.
C2_WrittenIffAllCriteria ==
  pcMain = "done" =>
    \A t \in Range(Flatten(produced)) : (t.Value \in Written) <=> C2_Criteria(t.Value)

\* A finished run with length, substring and alpha-num filters set in which one
\* value was written and three were rejected, each failing exactly one criterion.
C2_Witness ==
  /\ pcMain = "done"
  /\ flags.alphaNumOnly /\ flags.filterString # <<>> /\ flags.minlength = flags.maxlength
  /\ Written # {}
  /\ \E t \in Range(sent) :
       t.Value \notin Written /\ ~LengthOK(t.Value)
       /\ SubstringOK(t.Value) /\ AlphaNumOK(t.Value)
  /\ \E t \in Range(sent) :
       t.Value \notin Written /\ LengthOK(t.Value)
       /\ ~SubstringOK(t.Value) /\ AlphaNumOK(t.Value)
  /\ \E t \in Range(sent) :
       t.Value \notin Written /\ LengthOK(t.Value)
       /\ SubstringOK(t.Value) /\ ~AlphaNumOK(t.Value)

\* The output the routing table gives a token of type ty.
C3_Sink(ty) ==
  IF ty = Path /\ flags.pathFile THEN "pathFile"
  ELSE IF ty = ParamName /\ flags.paramFile THEN "paramFile"
  ELSE "stdout"

\* C3: a step that writes is a processToken step that appends the worker's
\* token to the output its own type fixes and leaves the other two alone.
C3_Routing ==
  [][ <<stdout, pathOut, paramOut>> # <<stdout', pathOut', paramOut'>> =>
        /\ pcWorker = "proc"
        /\ stdout' = IF C3_Sink(token.Type) = "stdout"
                     THEN Append(stdout, token.Value) ELSE stdout
        /\ pathOut' = IF C3_Sink(token.Type) = "pathFile"
                      THEN Append(pathOut, token.Value) ELSE pathOut
        /\ paramOut' = IF C3_Sink(token.Type) = "paramFile"
                       THEN Append(paramOut, token.Value) ELSE paramOut
        /\ (pathOut' # pathOut => token.Type = Path)
        /\ (paramOut' # paramOut => token.Type = ParamName) ]_vars

\* All three outputs have been written to in one run.
C3_Witness == stdout # <<>> /\ pathOut # <<>> /\ paramOut # <<>>

\* C4: with -o and -op both given, when main has returned the path file holds
\* every value that meets the criteria and occurs as a Path token of the input,
\* and the parameter file every such value that occurs as a ParamName token.
C4_FilesHoldEveryPathAndParamName ==
  (pcMain = "done" /\ flags.pathFile /\ flags.paramFile) =>
    \A t \in Range(Flatten(produced)) :
      C2_Criteria(t.Value) =>
        /\ (t.Type = Path => t.Value \in Range(pathOut))
        /\ (t.Type = ParamName => t.Value \in Range(paramOut))

\* s is a prefix of t.
IsPrefix(s, t) == Len(s) <= Len(t) /\ SubSeq(t, 1, Len(s)) = s

\* C5: the tokens the worker has received are, in order, a prefix of the tokens
\* main has sent, which are a prefix of the tokens the lines read have produced.
C5_ReceivedInOrderSent == IsPrefix(recvd, sent) /\ IsPrefix(sent, Flatten(produced))

\* The worker is still processing a token of the first line while main has
\* already read the second line and waits to send its first token.
C5_Witness ==
  /\ lineNo = 2
  /\ pcMain = "send"
  /\ pcWorker = "proc"
  /\ Len(recvd) >= 3
  /\ token = produced[1][Len(produced[1])]
  /\ \E i, j \in 1..Len(recvd) : recvd[i] # recvd[j]

\* C6: main returns only after the worker has terminated, and the worker
\* terminates only after processToken has returned for every token sent; when
\* main has returned every token of every line has been sent and processed.
C6_MainReturnsAfterDrain ==
  /\ pcMain = "done" =>
       /\ pcWorker = "done"
       /\ lineNo = Len(lines)
       /\ sent = Flatten(produced)
       /\ processed = Len(sent)
  /\ pcWorker = "done" => (closed /\ processed = Len(sent) /\ recvd = sent)

\* main has returned after a run in which some tokens were written and others
\* discarded.
C6_Witness ==
  /\ pcMain = "done"
  /\ processed >= 4
  /\ Written # {}
  /\ \E t \in Range(sent) : t.Value \notin Written

\* C7: the sequence of tokens produced for a line is the same in every run:
\* whatever order the range over the query map takes, it yields the tokens
\* this run produced.
C7_TokenOrderDeterministic ==
  \A i \in 1..Len(produced) :
    \A order \in LineKeyOrders(lines[i]) : produced[i] = lineTokens(lines[i], order)

\* C8 as claimed: whenever main has a token to send, the send can complete,
\* whatever the worker is doing.
C8_SendNeverBlocks == pcMain = "send" => ENABLED SendRecv

\* C8 amended: the channel has no buffer.  A send completes only while the
\* worker waits in its receive, so main is blocked while the worker runs
\* processToken and is never more than one token ahead of it.
C8_SendWaitsForReceiver ==
  /\ Len(sent) - processed <= 1
  /\ pcMain = "send" => (ENABLED SendRecv <=> pcWorker = "recv")

\* main is blocked in a send while the worker is inside processToken.
C8_Witness == pcMain = "send" /\ pcWorker = "proc" /\ ~ENABLED SendRecv

\* The types a line decomposed as a URL produces.
URLTypes == {Subdomain, Path, ParamName, ParamValue, Fragment}

\* url.Parse succeeds on the line and gives a non-empty scheme and host.
C9_ParsesWithSchemeAndHost(line) ==
  ~Parse(line).err /\ Parse(line).Scheme # <<>> /\ Parse(line).Host # <<>>

\* C9: a line is decomposed as a URL, producing tokens of the five URL types
\* only, exactly when it parses with a non-empty scheme and host; every other
\* line produces the Generic tokens of the whole raw line and nothing else.
C9_URLIffSchemeAndHost ==
  \A i \in 1..Len(produced) :
    IF C9_ParsesWithSchemeAndHost(lines[i])
    THEN \A t \in Range(produced[i]) : t.Type \in URLTypes
    ELSE produced[i] = subTokenize(lines[i], Generic)

\* A line with scheme and host has been decomposed into tokens of all five
\* URL types.
C9_Witness ==
  /\ lineNo = 1
  /\ C9_ParsesWithSchemeAndHost(lines[1])
  /\ {t.Type : t \in Range(produced[1])} = URLTypes

C10_Line == (* example.com/a?x=1&x=2 *)
  <<"e", "x", "a", "m", "p", "l", "e", ".", "c", "o", "m", "/", "a", "?", "x", "=", "1", "&", "x", "=", "2">>

C10_LineWithScheme == (* http://example.com/a?x=1&x=2 *)
  <<"h", "t", "t", "p", ":", "/", "/", "e", "x", "a", "m", "p", "l", "e", ".", "c", "o", "m", "/", "a", "?", "x", "=", "1", "&", "x", "=", "2">>

\* C10 as claimed: the line example.com/a?x=1&x=2 produces the ParamName token
\* x exactly once and the ParamValue tokens 1 and 2.
C10_ExampleGivesParamTokens ==
  \A i \in 1..Len(produced) :
    lines[i] = C10_Line =>
      /\ Occurrences(produced[i], Token(<<"x">>, ParamName)) = 1
      /\ Token(<<"1">>, ParamValue) \in Range(produced[i])
      /\ Token(<<"2">>, ParamValue) \in Range(produced[i])

\* C10 amended: the line has no scheme, so it is tokenized whole as Generic:
\* example, com, a, x, 1, x, 2.  With a scheme in front it produces the
\* ParamName token x exactly once and the ParamValue tokens 1 and 2.
C10_ExampleIsGeneric ==
  \A i \in 1..Len(produced) :
    /\ lines[i] = C10_Line =>
         produced[i] = <<Token(<<"e", "x", "a", "m", "p", "l", "e">>, Generic),
                         Token(<<"c", "o", "m">>, Generic),
                         Token(<<"a">>, Generic),
                         Token(<<"x">>, Generic),
                         Token(<<"1">>, Generic),
                         Token(<<"x">>, Generic),
                         Token(<<"2">>, Generic)>>
    /\ lines[i] = C10_LineWithScheme =>
         /\ Occurrences(produced[i], Token(<<"x">>, ParamName)) = 1
         /\ Token(<<"1">>, ParamValue) \in Range(produced[i])
         /\ Token(<<"2">>, ParamValue) \in Range(produced[i])
         /\ \A t \in Range(produced[i]) : t.Type \in URLTypes

\* Both lines have been read and decomposed in one run.
C10_Witness ==
  /\ lines = <<C10_Line, C10_LineWithScheme>>
  /\ lineNo = 2

\* C11: the length filter counts characters.  When main has returned, a value
\* produced from the input that meets the substring, regex and alpha-num
\* criteria stands in some output if and only if the number of its characters
\* lies between -min and -max.
C11_LengthInCharacters ==
  pcMain = "done" =>
    \A t \in Range(Flatten(produced)) :
      (SubstringOK(t.Value) /\ RegexOK(t.Value) /\ AlphaNumOK(t.Value)) =>
        (t.Value \in Written <=>
           (flags.minlength <= Len(t.Value) /\ Len(t.Value) <= flags.maxlength))

\* The line is decomposed as a URL and url.ParseQuery fails on its query.
C12_QueryFails(line) == ~IsFallback(ParsedLine[line]) /\ ParsedQuery[line].err

\* The raw line with the text between its first ? and its # replaced by q.
C12_ReplaceQuery(line, q) ==
  Cut(Cut(line, "#").before, "?").before \o <<"?">> \o q
    \o (IF Index(line, "#") = 0 THEN <<>> ELSE <<"#">> \o Cut(line, "#").after)

C12_NotParam(t) == t.Type \notin {ParamName, ParamValue}

\* C12: a URL line whose query does not parse produces no ParamName and no
\* ParamValue token, and its tokens are the Subdomain, Path and Fragment tokens
\* the same line produces with the well-formed query k=v in its place; main
\* leaves the scanner loop only when every line has been read.
C12_FailedQuerySkipsOnlyParams ==
  /\ \A i \in 1..Len(produced) :
       C12_QueryFails(lines[i]) =>
         /\ \A t \in Range(produced[i]) : C12_NotParam(t)
         /\ produced[i] =
              SelectSeq(lineTokens(C12_ReplaceQuery(lines[i], <<"k", "=", "v">>), <<<<"k">>>>),
                        C12_NotParam)
  /\ pcMain \in {"wait", "done"} => Len(produced) = Len(lines)

\* A line with a query that does not parse has produced Subdomain, Path and
\* Fragment tokens, and the line after it has been read and decomposed into
\* tokens that include parameter names.
C12_Witness ==
  /\ lineNo = 2
  /\ C12_QueryFails(lines[1])
  /\ {t.Type : t \in Range(produced[1])} = {Subdomain, Path, Fragment}
  /\ \E t \in Range(produced[2]) : t.Type = ParamName

C13_IsAlnum(r) == IsLetter(r) \/ IsNumber(r)

\* The positions of s where a maximal run of letters and digits starts / ends.
C13_Starts(s) ==
  {j \in 1..Len(s) : C13_IsAlnum(s[j]) /\ (j = 1 \/ ~C13_IsAlnum(s[j - 1]))}

C13_Ends(s) ==
  {j \in 1..Len(s) : C13_IsAlnum(s[j]) /\ (j = Len(s) \/ ~C13_IsAlnum(s[j + 1]))}

\* The k-th smallest element of a set of numbers.
C13_Kth(S, k) == CHOOSE j \in S : Cardinality({x \in S : x < j}) = k - 1

\* The maximal runs of letters and digits of s from left to right, tagged ty.
C13_Runs(s, ty) ==
  [k \in 1..Cardinality(C13_Starts(s)) |->
     Token(SubSeq(s, C13_Kth(C13_Starts(s), k), C13_Kth(C13_Ends(s), k)), ty)]

C13_OfType(toks, ty) == SelectSeq(toks, LAMBDA t : t.Type = ty)

\* toks is what the claim says subTokenize(s, ty) sends.
C13_Sends(toks, s, ty) ==
  /\ toks = C13_Runs(s, ty)
  /\ \A k \in 1..Len(toks) :
       /\ toks[k].Value # <<>>
       /\ \A j \in 1..Len(toks[k].Value) : C13_IsAlnum(toks[k].Value[j])
  /\ Flatten([k \in 1..Len(toks) |-> toks[k].Value]) = SelectSeq(s, C13_IsAlnum)
  /\ (SelectSeq(s, C13_IsAlnum) = <<>> => toks = <<>>)

C13_LineSends(toks, line, u) ==
  IF IsFallback(u)
  THEN C13_Sends(toks, line, Generic)
  ELSE /\ C13_Sends(C13_OfType(toks, Subdomain), Hostname(u), Subdomain)
       /\ C13_Sends(C13_OfType(toks, Path), u.Path, Path)
       /\ C13_Sends(C13_OfType(toks, Fragment), u.Fragment, Fragment)

\* C13: the tokens sent for a string are exactly its maximal runs of letters
\* and digits, left to right, with the origin given: each is non-empty and
\* alphanumeric, their concatenation is the string without its other
\* characters, and a string without letters and digits sends nothing.  Stated
\* for the raw line of a Generic line and for the hostname, path and fragment
\* of a URL line ("." and "/" are not alphanumeric, so the tokens of the parts
\* of a hostname or path are the tokens of the whole).
C13_SendsMaximalRuns ==
  \A i \in 1..Len(produced) : C13_LineSends(produced[i], lines[i], Parse(lines[i]))

\* A URL line has been decomposed whose path has a run that is a two-byte
\* letter, cut off from the run before it by a "-", whose fragment has three
\* runs and whose hostname has two.
C13_Witness ==
  /\ lineNo = 1
  /\ ~IsFallback(Parse(lines[1]))
  /\ Len(C13_OfType(produced[1], Fragment)) = 3
  /\ Len(C13_OfType(produced[1], Subdomain)) = 2
  /\ Token(<<"é">>, Path) \in Range(produced[1])
  /\ Token(<<"q">>, Path) \in Range(produced[1])

\* The position in the token stream at which the value v is received first.
C14_FirstOccurrence(v) ==
  CHOOSE i \in 1..Len(recvd) :
    recvd[i].Value = v /\ \A j \in 1..(i - 1) : recvd[j].Value # v

\* The values of an output stand in it in the order of their first occurrences.
C14_InStreamOrder(sink) ==
  /\ \A p \in 1..Len(sink) : \E i \in 1..Len(recvd) : recvd[i].Value = sink[p]
  /\ \A p, q \in 1..Len(sink) :
       p < q => C14_FirstOccurrence(sink[p]) < C14_FirstOccurrence(sink[q])

\* C14: output is never reordered.  Every step leaves each output as it was or
\* appends at its end, and after every step the values of each output stand in
\* the order in which they first occurred in the token stream.
C14_OutputNeverReordered ==
  [][ /\ IsPrefix(stdout, stdout')
      /\ IsPrefix(pathOut, pathOut')
      /\ IsPrefix(paramOut, paramOut')
      /\ C14_InStreamOrder(stdout')
      /\ C14_InStreamOrder(pathOut')
      /\ C14_InStreamOrder(paramOut') ]_vars

\* Two outputs hold two values or more each, and between two values of one
\* output the stream had a token that was not written there.
C14_Witness ==
  /\ Len(stdout) >= 2
  /\ Len(pathOut) >= 2
  /\ \E p \in 1..(Len(stdout) - 1) :
       C14_FirstOccurrence(stdout[p]) + 1 < C14_FirstOccurrence(stdout[p + 1])

\* The values of the tokens for which processToken has returned.
C15_ValuesProcessed == {recvd[i].Value : i \in 1..processed}

\* C15: the value is stored before any filter is applied.  The stored set only
\* grows and after every step equals the set of values of the tokens processed
\* so far, written or not; a processToken call for a value already stored
\* leaves the three outputs as they are.
C15_SeenBeforeFilters ==
  [][ /\ lastToken \subseteq lastToken'
      /\ lastToken' = C15_ValuesProcessed'
      /\ (pcWorker = "proc" /\ token.Value \in lastToken) =>
           UNCHANGED <<stdout, pathOut, paramOut>>
      /\ processed' # processed => token.Value \in lastToken' ]_vars

\* A value a filter rejected on its first occurrence has come again under
\* another type and been processed again; it is stored and in no output,
\* while another value of the run has been written.
C15_Witness ==
  /\ Written # {}
  /\ \E i, j \in 1..processed :
       /\ i < j
       /\ recvd[i].Value = recvd[j].Value
       /\ recvd[i].Type # recvd[j].Type
       /\ ~PassesFilters(recvd[i].Value)
       /\ recvd[i].Value \in lastToken
       /\ recvd[i].Value \notin Written

\* The place of a token type in the region order of a URL line.
C16_Region(ty) ==
  CASE ty = Subdomain -> 1
    [] ty = Path -> 2
    [] ty \in {ParamName, ParamValue} -> 3
    [] ty = Fragment -> 4
    [] OTHER -> 0

\* The ParamValue runs of the values of one key, the values in input order.
C16_ValueRuns(values) ==
  Flatten([k \in 1..Len(values) |-> C13_Runs(values[k], ParamValue)])

\* The ParamName runs of a key, then the ParamValue runs of its values.
C16_KeyBlock(pairs, key) ==
  C13_Runs(key, ParamName) \o C16_ValueRuns(QueryValues(pairs, key))

C16_QueryBlocks(pairs, order) ==
  Flatten([k \in 1..Len(order) |-> C16_KeyBlock(pairs, order[k])])

C16_IsParam(t) == t.Type \in {ParamName, ParamValue}

\* The tokens of a URL line are in region order, and its parameter tokens are,
\* key after key in some order of the keys, the key's block.
C16_LineInOrder(toks, u, q) ==
  ~IsFallback(u) =>
    /\ \A a, b \in 1..Len(toks) :
         a < b => C16_Region(toks[a].Type) <= C16_Region(toks[b].Type)
    /\ ~q.err =>
         \E order \in KeyOrders(QueryKeys(q)) :
           SelectSeq(toks, C16_IsParam) = C16_QueryBlocks(q.pairs, order)

\* C16: production follows line order and region order.  The tokens sent so
\* far, followed by those of the current line still to be sent, are the tokens
\* of the lines read, line after line; within a URL line Subdomain tokens come
\* before Path tokens, these before ParamName and ParamValue tokens, these
\* before Fragment tokens; the ParamName tokens of each key come immediately
\* before the ParamValue tokens of its values, taken in input order.
C16_ProductionOrder ==
  /\ sent \o pending = Flatten(produced)
  /\ \A i \in 1..Len(produced) :
       C16_LineInOrder(produced[i], ParsedLine[lines[i]], ParsedQuery[lines[i]])

\* The first line had tokens of all five URL types and two query keys; all its
\* tokens and some of the second line, which has a key with two values, have
\* been sent, and main is sending the rest.
C16_Witness ==
  /\ lineNo = 2
  /\ {t.Type : t \in Range(produced[1])} = URLTypes
  /\ Cardinality(QueryKeys(ParsedQuery[lines[1]])) = 2
  /\ \E t \in Range(produced[2]) :
       /\ t.Type = ParamName
       /\ Len(QueryValues(ParsedQuery[lines[2]].pairs, t.Value)) = 2
  /\ Len(sent) > Len(produced[1])
  /\ pending # <<>>

\* C17: under fair scheduling every run terminates.  For every input main
\* eventually returns, with the worker terminated, every line read and every
\* token produced processed; so neither is main blocked forever in a send or
\* in wg.Wait nor the worker in its receive.
C17_Terminates ==
  <>(/\ pcMain = "done"
     /\ pcWorker = "done"
     /\ lineNo = Len(lines)
     /\ processed = Len(Flatten(produced)))

\* main has returned from a run over two lines in which it was made to wait
\* in a send at least eight times.
C17_Witness ==
  /\ pcMain = "done"
  /\ pcWorker = "done"
  /\ Len(lines) >= 2
  /\ Len(sent) >= 8

\* The value of the worker's token was the value of an earlier token.
C18_Repeat == \E i \in 1..processed : recvd[i].Value = token.Value

\* C18: a processToken call writes to zero or one output.  A call for a repeat
\* value or for a value that fails a criterion leaves the three outputs as
\* they are; a call for a first occurrence that meets every criterion appends
\* one line, the value, to exactly one output and leaves the other two as they
\* are.
C18_WritesZeroOrOneLine ==
  [][ processed' # processed =>
        IF C18_Repeat \/ ~C2_Criteria(token.Value)
        THEN UNCHANGED <<stdout, pathOut, paramOut>>
        ELSE \/ stdout' = Append(stdout, token.Value) /\ UNCHANGED <<pathOut, paramOut>>
             \/ pathOut' = Append(pathOut, token.Value) /\ UNCHANGED <<stdout, paramOut>>
             \/ paramOut' = Append(paramOut, token.Value) /\ UNCHANGED <<stdout, pathOut>> ]_vars

\* processToken has returned for a repeat value, for a first occurrence that
\* fails a criterion, for a token written to stdout and for one written to
\* the path file.
C18_Witness ==
  /\ stdout # <<>> /\ pathOut # <<>>
  /\ \E i, j \in 1..processed : i < j /\ recvd[i].Value = recvd[j].Value
  /\ \E i \in 1..processed : ~C2_Criteria(recvd[i].Value)
  /\ Len(stdout) + Len(pathOut) + Len(paramOut) < processed

RECURSIVE C19_Runs(_)
\* The token streams the runs on this input can produce from line i on: one
\* for every choice of an order of the query keys of each line.
C19_Runs(i) ==
  IF i > Len(lines)
  THEN {<<>>}
  ELSE {a \o b : a \in Decomposed[lines[i]], b \in C19_Runs(i + 1)}

RECURSIVE C19_SinkSets(_, _, _)
\* The sets of values the three outputs hold after the tokens toks have been
\* processed one after the other, starting with the values seen stored and the
\* outputs holding sets.
C19_SinkSets(toks, seen, sets) ==
  IF toks = <<>>
  THEN sets
  ELSE C19_SinkSets(Tail(toks), seen \cup {Head(toks).Value},
                    IF Head(toks).Value \notin seen /\ PassesFilters(Head(toks).Value)
                    THEN [sets EXCEPT ![Dispatch(Head(toks).Type)] = @ \cup {Head(toks).Value}]
                    ELSE sets)

\* C19: with -o or -op given, the set of values each output holds when main
\* has returned is the same in every run on the same input and flags: every
\* token stream a run can produce leads to the sets of this run.
C19_SinkSetsSameInEveryRun ==
  (pcMain = "done" /\ (flags.pathFile \/ flags.paramFile)) =>
    \A run \in C19_Runs(1) :
      C19_SinkSets(run, {}, [stdout |-> {}, pathFile |-> {}, paramFile |-> {}])
        = [stdout |-> Range(stdout), pathFile |-> Range(pathOut),
           paramFile |-> Range(paramOut)]

\* C20: the channel is closed once, by main, after the last token of the last
\* line has been handed to the worker.  The step that closes it is a step of
\* main from the head of the scanner loop to wg.Wait, taken when every line
\* has been read and every token produced has been received; once closed the
\* channel stays closed, main is at no send and nothing more is sent; the
\* worker leaves its loop only on the closed channel with every produced token
\* received; and main does not return with the channel open.
C20_ClosedOnceAfterLastToken ==
  [][ /\ closed' # closed =>
           /\ ~closed
           /\ pcMain = "scan" /\ pcMain' = "wait"
           /\ lineNo = Len(lines)
           /\ pending = <<>>
           /\ recvd = Flatten(produced)
      /\ closed => (closed' /\ sent' = sent /\ pcMain # "send" /\ pcMain' # "send")
      /\ (pcWorker # "done" /\ pcWorker' = "done") =>
           (closed /\ lineNo = Len(lines) /\ recvd = Flatten(produced))
      /\ pcMain' = "done" => closed' ]_vars

\* The channel has been closed after two lines and five or more tokens, main
\* waits in wg.Wait, and the worker, still in processToken for the last
\* token, has not yet seen the end of the stream.
C20_Witness ==
  /\ closed
  /\ pcMain = "wait"
  /\ pcWorker = "proc"
  /\ Len(lines) >= 2
  /\ Len(sent) >= 5
  /\ token = sent[Len(sent)]

====
